---- MODULE Spec2Model ----
(***************************************************************************)
(* Model of the Italo schedule pipeline:                                   *)
(*   normalize_italo.py  (raw per-train JSON -> normalized schedule JSON)  *)
(*   build_gtfs.py       (normalized schedules -> GTFS tables)             *)
(* and of the tools around it:                                             *)
(*   italo_scrape.py            (slice_list, fetch_json)                   *)
(*   extract_locations.py       (the coordinate table)                     *)
(*   make_normalized_latest.py  (the latest record of every train)         *)
(*   report_stops.py            (the cumulative stop inventory)            *)
(*                                                                         *)
(* Strings are sequences of one-character strings, so that strip(),        *)
(* the HH:MM pattern, f-string formatting and lexicographic sorting are    *)
(* computed the way the Python code computes them.  Optional values        *)
(* (Python None) are the empty tuple None; a present value x is <<x>>.     *)
(*                                                                         *)
(* Fields the pipeline only passes through and that no table of the feed   *)
(* reads (RfiLocationCode, LastUpdate, captured_utc, origin_code,          *)
(* destination_code) are left out of the records.                          *)
(***************************************************************************)
EXTENDS Integers, Sequences, FiniteSets, TLC

VARIABLES
    raw_files,                    \* out/<run>/<train>.json : train -> payload
    normalized,                   \* normalized/<run>/<train>.normalized.json : train -> optional record
    pc,                           \* position of the pipeline
    stop_id_by_key,               \* build_gtfs.main: set of <<key, stop_id>>
    stops_rows,                   \* build_gtfs.main: rows of stops.txt
    seen_stop_ids,                \* build_gtfs.main
    routes_rows,                  \* build_gtfs.main: rows of routes.txt
    trips_rows,                   \* build_gtfs.main: rows of trips.txt
    stop_times_rows,              \* build_gtfs.main: rows of stop_times.txt
    used_route_ids,               \* build_gtfs.main
    dropped_stops_no_coords,      \* build_gtfs.main
    dropped_trips_too_few_stops,  \* build_gtfs.main
    resolutions,                  \* log of the stop observations build_gtfs.main has looked at
    raw_in,                       \* argument of one call of extract_stops_from_train_schedule
    extracted,                    \* its result
    stats,                        \* normalize_italo.main: the counters of _summary.json
    clock_in,                     \* argument of one call of parse_hhmm
    parsed,                       \* its result
    times_in,                     \* argument of one call of infer_rollover_minutes
    rolled,                       \* its result
    coords_file,                  \* extract_locations: the rows of coordinates.csv
    coords_before,                \* the rows of coordinates.csv before the last run
    scanned,                      \* the raw payloads the last run of extract_locations read
    loc_runs,                     \* runs of extract_locations so far
    run_dirs,                     \* make_normalized_latest: run directory -> file name -> content
    out_dir,                      \* make_normalized_latest: file name -> content of normalized_latest/
    out_before,                   \* normalized_latest/ before the merge
    items,                        \* arguments of one call of slice_list
    slice_size,
    slice_index,
    slice_out,                    \* its result
    retries,                      \* argument of one call of fetch_json
    responses,                    \* what the server will answer to the requests still to come
    attempt,                      \* fetch_json: the loop variable
    last_err,                     \* fetch_json
    requests,                     \* requests fetch_json has sent
    fetched,                      \* its result
    inventory,                    \* report_stops: the content of stop_inventory.json
    inventory_before,             \* the inventory before the last run
    observed,                     \* the stops the last run observed
    run_utc,                      \* the identifier of the last run
    inv_runs                      \* runs of report_stops so far

extract_vars == <<raw_in, extracted>>

time_vars == <<clock_in, parsed, times_in, rolled>>

loc_vars == <<coords_file, coords_before, scanned, loc_runs>>

latest_vars == <<run_dirs, out_dir, out_before>>

slice_vars == <<items, slice_size, slice_index, slice_out>>

fetch_vars == <<retries, responses, attempt, last_err, requests, fetched>>

inventory_vars == <<inventory, inventory_before, observed, run_utc, inv_runs>>

scrape_vars == <<slice_vars, fetch_vars>>

report_vars == <<latest_vars, inventory_vars>>

vars == <<raw_files, normalized, pc, stop_id_by_key, stops_rows,
          seen_stop_ids, routes_rows, trips_rows, stop_times_rows, used_route_ids,
          dropped_stops_no_coords, dropped_trips_too_few_stops, resolutions,
          raw_in, extracted, stats, clock_in, parsed, times_in, rolled,
          coords_file, coords_before, scanned, loc_runs,
          run_dirs, out_dir, out_before, items, slice_size, slice_index, slice_out,
          retries, responses, attempt, last_err, requests, fetched,
          inventory, inventory_before, observed, run_utc, inv_runs>>

gtfs_vars == <<stop_id_by_key, stops_rows, seen_stop_ids, routes_rows,
               trips_rows, stop_times_rows, used_route_ids,
               dropped_stops_no_coords, dropped_trips_too_few_stops, resolutions>>

-----------------------------------------------------------------------------
(* Bounds of the model *)

\* stops in one raw per-train record (origin + scheduled + pass-through)
MaxStops == 3

\* train numbers in trains.txt
MaxTrains == 2

\* stops over all the raw records of one run
MaxTotalStops == 4

\* runs of extract_locations over the same coordinates.csv
MaxRuns == 2

\* length of a list given to infer_rollover_minutes
MaxTimes == 4

\* length of a string given to parse_hhmm
MaxClockLen == 5

-----------------------------------------------------------------------------
(* Python values *)

None == <<>>

Some(x) == <<x>>

\* x or ""   for an Optional[str]
OrEmpty(x) == IF x = None THEN <<>> ELSE x[1]

\* truthiness of an Optional[str]: None and "" are falsy
Truthy(x) == x # None /\ x[1] # <<>>

Min(a, b) == IF a < b THEN a ELSE b

\* characters in code-point order (the ones the model's strings use)
CharOrder ==
    <<" ", "-", ".", "0", "1", "2", "3", "4", "5", "6", "7", "8", "9", ":",
      "A", "B", "C", "D", "E", "K", "N", "O", "P", "R", "S", "T", "U", "W", "X", "Z", "_",
      "a", "b", "c", "d", "e", "i", "j", "l", "m", "n", "o", "r", "s", "x", "z">>

CharRank(c) == CHOOSE i \in 1..Len(CharOrder) : CharOrder[i] = c

Digits == <<"0", "1", "2", "3", "4", "5", "6", "7", "8", "9">>

DigitSet == {Digits[i] : i \in 1..10}

DigitMap == [c \in DigitSet |-> (CHOOSE i \in 1..10 : Digits[i] = c) - 1]

IsDigit(c) == c \in DigitSet

DigitVal(c) == DigitMap[c]

\* str < str in Python: lexicographic by code point, a proper prefix first
RECURSIVE StrLess(_, _)
StrLess(a, b) ==
    IF b = <<>> THEN FALSE
    ELSE IF a = <<>> THEN TRUE
    ELSE IF Head(a) = Head(b) THEN StrLess(Tail(a), Tail(b))
    ELSE CharRank(Head(a)) < CharRank(Head(b))

RECURSIVE LStrip(_)
LStrip(s) == IF s # <<>> /\ Head(s) = " " THEN LStrip(Tail(s)) ELSE s

RECURSIVE RStrip(_)
RStrip(s) ==
    IF s # <<>> /\ s[Len(s)] = " " THEN RStrip(SubSeq(s, 1, Len(s) - 1)) ELSE s

\* str.strip()
Strip(s) == RStrip(LStrip(s))

\* str(n) for n >= 0
RECURSIVE IntToStr(_)
IntToStr(n) ==
    IF n < 10 THEN <<Digits[n + 1]>>
    ELSE IntToStr(n \div 10) \o <<Digits[(n % 10) + 1]>>

\* f"{n:02d}" for n >= 0
Pad2(n) == IF n < 10 THEN <<"0">> \o IntToStr(n) ELSE IntToStr(n)

-----------------------------------------------------------------------------
(* normalize_italo.py *)

MinutesPerDay == 1440

NoStationNumber == 1000000000

\* TIME_RE = ^\d{2}:\d{2}$
TIME_RE_match(s) ==
    /\ Len(s) = 5
    /\ IsDigit(s[1]) /\ IsDigit(s[2]) /\ s[3] = ":" /\ IsDigit(s[4]) /\ IsDigit(s[5])

parse_hhmm(s) ==
    IF ~Truthy(s) \/ ~TIME_RE_match(s[1]) THEN None
    ELSE LET t  == s[1]
             hh == DigitVal(t[1]) * 10 + DigitVal(t[2])
             mm == DigitVal(t[4]) * 10 + DigitVal(t[5])
         IN  Some(hh * 60 + mm)

fmt_gtfs_time(minutes) ==
    IF minutes = None THEN None
    ELSE LET hh == minutes[1] \div 60
             mm == minutes[1] % 60
         IN  Some(Pad2(hh) \o <<":">> \o Pad2(mm) \o <<":", "0", "0">>)

\* rollover_walk that forgets the day it has added once the value is computed
RECURSIVE rollover_walk_OffsetLost(_, _, _)
rollover_walk_OffsetLost(times, offset, prev) ==
    IF times = <<>> THEN <<>>
    ELSE LET t == Head(times) IN
         IF t = None THEN <<None>> \o rollover_walk_OffsetLost(Tail(times), offset, prev)
         ELSE LET roll == prev # None /\ t[1] + offset < prev[1]
                  val  == IF roll THEN t[1] + offset + MinutesPerDay ELSE t[1] + offset
              IN  <<Some(val)>> \o rollover_walk_OffsetLost(Tail(times), offset, Some(val))

RECURSIVE rollover_walk(_, _, _)
rollover_walk(times, offset, prev) ==
    IF times = <<>> THEN <<>>
    ELSE LET t == Head(times) IN
         IF t = None THEN <<None>> \o rollover_walk(Tail(times), offset, prev)
         ELSE LET roll    == prev # None /\ t[1] + offset < prev[1]
                  offset2 == IF roll THEN offset + MinutesPerDay ELSE offset
                  val     == t[1] + offset2
              IN  <<Some(val)>> \o rollover_walk(Tail(times), offset2, Some(val))

\* infer_rollover_minutes that never adds a day
infer_rollover_minutes_SameDay(times) == times

infer_rollover_minutes(times) == rollover_walk(times, 0, None)

station_num(o) ==
    IF o.StationNumber = None THEN NoStationNumber ELSE o.StationNumber[1]

\* InsertByStationNum that puts x before the elements with an equal key
RECURSIVE InsertByStationNum_Unstable(_, _)
InsertByStationNum_Unstable(sorted, x) ==
    IF sorted = <<>> THEN <<x>>
    ELSE IF station_num(Head(sorted)) >= station_num(x) THEN <<x>> \o sorted
    ELSE <<Head(sorted)>> \o InsertByStationNum_Unstable(Tail(sorted), x)

\* list.sort(key=station_num) is stable: x goes before the first element whose key is greater
RECURSIVE InsertByStationNum(_, _)
InsertByStationNum(sorted, x) ==
    IF sorted = <<>> THEN <<x>>
    ELSE IF station_num(Head(sorted)) > station_num(x) THEN <<x>> \o sorted
    ELSE <<Head(sorted)>> \o InsertByStationNum(Tail(sorted), x)

RECURSIVE SortByStationNum(_)
SortByStationNum(s) ==
    IF s = <<>> THEN <<>>
    ELSE InsertByStationNum(SortByStationNum(SubSeq(s, 1, Len(s) - 1)), s[Len(s)])

\* StazionePartenza, then StazioniFerme, then StazioniNonFerme, sorted by StationNumber
GatherStops(ts) ==
    SortByStationNum(ts.StazionePartenza \o ts.StazioniFerme \o ts.StazioniNonFerme)

\* the per-stop correction of the departure minutes (lines 101-105)
FixDeparture(a, d) ==
    IF a # None /\ d # None /\ d[1] < a[1] THEN Some(d[1] + MinutesPerDay) ELSE d

\* arr_mins2 and dep_mins2 as they stand after the per-stop loop
ReconcileTimes(stops_raw) ==
    LET arr_mins  == [i \in 1..Len(stops_raw) |-> parse_hhmm(stops_raw[i].EstimatedArrivalTime)]
        dep_mins  == [i \in 1..Len(stops_raw) |-> parse_hhmm(stops_raw[i].EstimatedDepartureTime)]
        arr_mins2 == infer_rollover_minutes(arr_mins)
        dep_mins2 == infer_rollover_minutes(dep_mins)
    IN  [arr |-> arr_mins2,
         dep |-> [i \in 1..Len(stops_raw) |-> FixDeparture(arr_mins2[i], dep_mins2[i])]]

\* FirstStopArrival without the endpoint rule
FirstStopArrival_Kept(i, arr_out) == arr_out

\* the first stop reports no arrival (lines 119-120)
FirstStopArrival(i, arr_out) == IF i = 1 THEN None ELSE arr_out

\* the last stop reports no departure (lines 123-124)
LastStopDeparture(i, n, dep_out) == IF i = n THEN None ELSE dep_out

NormalizedStops(stops_raw) ==
    LET mins == ReconcileTimes(stops_raw)
        n    == Len(stops_raw)
    IN  [i \in 1..n |->
            LET s   == stops_raw[i]
                seq == station_num(s)
            IN  [stop_sequence  |-> IF seq # NoStationNumber THEN seq ELSE i - 1,
                 stop_name      |-> s.LocationDescription,
                 location_code  |-> s.LocationCode,
                 arrival_time   |-> FirstStopArrival(i, fmt_gtfs_time(mins.arr[i])),
                 departure_time |-> LastStopDeparture(i, n, fmt_gtfs_time(mins.dep[i]))]]

\* a raw payload is falsy, flagged IsEmpty, or has no TrainSchedule
NoSchedule(raw) == raw = None \/ raw[1].IsEmpty \/ raw[1].TrainSchedule = None

extract_stops_from_train_schedule(raw, train) ==
    IF NoSchedule(raw) THEN None
    ELSE LET ts == raw[1].TrainSchedule[1] IN
         Some([train_number        |-> train,
               origin_station      |-> ts.DepartureStationDescription,
               destination_station |-> ts.ArrivalStationDescription,
               stops               |-> NormalizedStops(GatherStops(ts))])

-----------------------------------------------------------------------------
(* build_gtfs.py *)

\* coordinates.csv as csv.DictReader yields it, one record per line of the file.
\* Coordinates are whole-number decimal strings, blank, or text float() rejects.
CoordinatesCsv ==
    << [location_name |-> <<"A">>,      lat |-> <<"4", "5">>,           lon |-> <<"9">>],
       [location_name |-> <<"B", " ">>, lat |-> <<" ", "-", "4", "1">>, lon |-> <<"1", "8", "0">>],
       [location_name |-> <<"C">>,      lat |-> <<"9", "1">>,           lon |-> <<"9">>],
       [location_name |-> <<"D">>,      lat |-> <<>>,                   lon |-> <<"9">>],
       [location_name |-> <<"E">>,      lat |-> <<"4", "x">>,           lon |-> <<"9">>],
       [location_name |-> <<" ">>,      lat |-> <<"4", "5">>,           lon |-> <<"9">>] >>

\* the dict load_coords_csv returns: stripped name -> <<lat, lon>>, a later line wins
load_coords_csv(rows) ==
    LET names == {Strip(rows[i].location_name) : i \in 1..Len(rows)} \ {<<>>}
        last(n) == CHOOSE i \in 1..Len(rows) :
                      /\ Strip(rows[i].location_name) = n
                      /\ \A j \in (i + 1)..Len(rows) : Strip(rows[j].location_name) # n
    IN  [n \in names |-> <<Strip(rows[last(n)].lat), Strip(rows[last(n)].lon)>>]

coords_by_name == load_coords_csv(CoordinatesCsv)

RECURSIVE DecimalValue(_)
DecimalValue(s) ==
    IF s = <<>> THEN 0 ELSE DecimalValue(SubSeq(s, 1, Len(s) - 1)) * 10 + DigitVal(s[Len(s)])

\* float(s) on the strings of the model: an optional sign and digits, else ValueError (None)
float(s) ==
    LET signed == s # <<>> /\ Head(s) \in {"-", "+"}
        body   == IF signed THEN Tail(s) ELSE s
    IN  IF body = <<>> \/ \E i \in 1..Len(body) : ~IsDigit(body[i]) THEN None
        ELSE IF signed /\ Head(s) = "-" THEN Some(0 - DecimalValue(body))
        ELSE Some(DecimalValue(body))

\* has_valid_coord without the range test
has_valid_coord_NoRange(lat, lon) ==
    lat # <<>> /\ lon # <<>> /\ float(lat) # None /\ float(lon) # None

has_valid_coord(lat, lon) ==
    IF lat = <<>> \/ lon = <<>> THEN FALSE
    ELSE LET la == float(lat)
             lo == float(lon)
         IN  IF la = None \/ lo = None THEN FALSE
             ELSE -90 <= la[1] /\ la[1] <= 90 /\ -180 <= lo[1] /\ lo[1] <= 180

\* normalize_arr_dep that strips and copies nothing
normalize_arr_dep_NoCopy(arr0, dep0) == <<Strip(arr0), Strip(dep0)>>

normalize_arr_dep(arr0, dep0) ==
    LET arr == Strip(arr0)
        dep == Strip(dep0)
    IN  IF arr # <<>> /\ dep = <<>> THEN <<arr, arr>>
        ELSE IF dep # <<>> /\ arr = <<>> THEN <<dep, dep>>
        ELSE <<arr, dep>>

\* --service-date, --agency-id
ServiceDate == <<"2", "0", "2", "5", "0", "1", "0", "1">>

AgencyId == <<"I", "T", "A", "L", "O">>

service_id == <<"S", "V", "C", "_">> \o ServiceDate

\* the one row of calendar.txt (line 109): the service id, the seven day flags and the start
\* date; the end date is the day of the run plus 365 days and is read by no other table
calendar_rows ==
    <<<<service_id, <<"1">>, <<"1">>, <<"1">>, <<"1">>, <<"1">>, <<"1">>, <<"1">>, ServiceDate>>>>

RouteId(train) == <<"R", "_">> \o train

TripId(train) == <<"T", "_">> \o train \o <<"_">> \o ServiceDate

\* the separator of the f-string of line 203, as the source file spells it
LongNameSeparator == <<" ", "U+00E2", "U+20AC", "U+201C", " ">>

\* RouteLongName with the two stations swapped
RouteLongName_Swapped(origin, dest) == dest \o LongNameSeparator \o origin

RouteLongName(origin, dest) == origin \o LongNameSeparator \o dest

stop_key(code, name) ==
    IF Strip(code) # <<>> THEN Strip(code) ELSE Strip(name)

coords_for_name(name) ==
    IF Strip(name) \in DOMAIN coords_by_name THEN coords_by_name[Strip(name)]
    ELSE <<<<>>, <<>>>>

keep_stop(name) ==
    has_valid_coord(coords_for_name(name)[1], coords_for_name(name)[2])

StopId(key) == <<"S", "T", "O", "P", "_">> \o key

UnknownKey == <<"U", "N", "K", "N", "O", "W", "N">>

\* ensure_stop that hands out the stop id without entering the stop in the registry
ensure_stop_Unlisted(reg, code, name) ==
    LET key0 == stop_key(code, name)
        key  == IF key0 = <<>> THEN UnknownKey ELSE key0
    IN  [stop_id |-> StopId(key), reg |-> reg]

\* reg is the registry [stop_id_by_key, stops_rows, seen_stop_ids];
\* the result is the stop id and the registry after the call
ensure_stop(reg, code, name) ==
    LET key0    == stop_key(code, name)
        key     == IF key0 = <<>> THEN UnknownKey ELSE key0
        stop_id == StopId(key)
    IN  IF key \in DOMAIN reg.stop_id_by_key
        THEN [stop_id |-> reg.stop_id_by_key[key], reg |-> reg]
        ELSE LET map2      == [k \in DOMAIN reg.stop_id_by_key \cup {key} |->
                                  IF k = key THEN stop_id ELSE reg.stop_id_by_key[k]]
                 name0     == IF name # <<>> THEN name ELSE key
                 stop_name == IF Strip(name0) # <<>> THEN Strip(name0) ELSE key
                 stop_code == Strip(code)
                 ll        == coords_for_name(stop_name)
                 valid     == has_valid_coord(ll[1], ll[2])
                 row       == <<stop_id, stop_name,
                                IF valid THEN ll[1] ELSE <<>>,
                                IF valid THEN ll[2] ELSE <<>>,
                                stop_code>>
             IN  [stop_id |-> stop_id,
                  reg     |-> IF stop_id \in reg.seen_stop_ids
                              THEN [reg EXCEPT !.stop_id_by_key = map2]
                              ELSE [stop_id_by_key |-> map2,
                                    stops_rows     |-> Append(reg.stops_rows, row),
                                    seen_stop_ids  |-> reg.seen_stop_ids \cup {stop_id}]]

\* SeqAfterDrop counting the dropped stop too
SeqAfterDrop_Counted(seq) == seq + 1

\* the stop-sequence counter after a stop was dropped for its coordinates (lines 180-182)
SeqAfterDrop(seq) == seq

\* the stop-sequence counter after a stop was kept (line 191)
SeqAfterKeep(seq) == seq + 1

\* one pass of the loop over data["stops"] (lines 173-191); st is the loop's state
ProcessStop(st, s, trip_id) ==
    LET name == Strip(OrEmpty(s.stop_name))
        code == Strip(OrEmpty(s.location_code))
    IN  IF name = <<>> THEN st
        ELSE IF ~keep_stop(name)
        THEN [st EXCEPT !.dropped = @ + 1,
                        !.seq     = SeqAfterDrop(@),
                        !.log     = Append(@, [key |-> stop_key(code, name), name |-> name,
                                               kept |-> FALSE, stop_id |-> None])]
        ELSE LET r  == ensure_stop(st.reg, code, name)
                 ad == normalize_arr_dep(OrEmpty(s.arrival_time), OrEmpty(s.departure_time))
             IN  [st EXCEPT !.reg  = r.reg,
                            !.kept = Append(@, <<trip_id, ad[1], ad[2], r.stop_id, IntToStr(st.seq)>>),
                            !.seq  = SeqAfterKeep(@),
                            !.log  = Append(@, [key |-> stop_key(code, name), name |-> name,
                                                kept |-> TRUE, stop_id |-> Some(r.stop_id)])]

RECURSIVE ProcessStops(_, _, _)
ProcessStops(st, stops, trip_id) ==
    IF stops = <<>> THEN st
    ELSE ProcessStops(ProcessStop(st, Head(stops), trip_id), Tail(stops), trip_id)

\* TooFewStops with the threshold off by one
TooFewStops_One(kept_rows_for_trip) == Len(kept_rows_for_trip) < 1

\* the minimum-stop rule (line 194)
TooFewStops(kept_rows_for_trip) == Len(kept_rows_for_trip) < 2

\* SortedStrings in descending order
RECURSIVE SortedStrings_Descending(_)
SortedStrings_Descending(S) ==
    IF S = {} THEN <<>>
    ELSE LET m == CHOOSE x \in S : \A y \in S \ {x} : StrLess(y, x)
         IN  <<m>> \o SortedStrings_Descending(S \ {m})

\* sorted(S) for a set of strings
RECURSIVE SortedStrings(_)
SortedStrings(S) ==
    IF S = {} THEN <<>>
    ELSE LET m == CHOOSE x \in S : \A y \in S \ {x} : StrLess(x, y)
         IN  <<m>> \o SortedStrings(S \ {m})

\* lines 209-214: one row per used route id, the last appended row of an id wins, sorted by id
DedupRoutes(rows, used) ==
    LET ids     == {rows[i][1] : i \in 1..Len(rows)} \cap used
        last(r) == CHOOSE i \in 1..Len(rows) :
                      rows[i][1] = r /\ \A j \in (i + 1)..Len(rows) : rows[j][1] # r
        order   == SortedStrings(ids)
    IN  [k \in 1..Len(order) |-> rows[last(order[k])]]

NormalizedSuffix ==
    <<".", "n", "o", "r", "m", "a", "l", "i", "z", "e", "d", ".", "j", "s", "o", "n">>

\* normalize_italo.main names the file of a train <train>.normalized.json (line 167)
NormalizedFileName(train) == train \o NormalizedSuffix

-----------------------------------------------------------------------------
(* Inputs *)

\* trains.txt
TrainPool == << <<"9">>, <<"1", "0">>, <<"7", "7">> >>

Trains == {TrainPool[i] : i \in 1..MaxTrains}

\* stop descriptors the operator's API reports: name, code, estimated arrival and departure
RawStopKinds ==
    { [LocationDescription |-> Some(<<"A">>), LocationCode |-> None,
       EstimatedArrivalTime   |-> Some(<<"2", "3", ":", "5", "0">>),
       EstimatedDepartureTime |-> Some(<<"2", "3", ":", "5", "5">>)],
      [LocationDescription |-> Some(<<"B">>), LocationCode |-> Some(<<"X">>),
       EstimatedArrivalTime   |-> Some(<<"0", "0", ":", "1", "0">>),
       EstimatedDepartureTime |-> Some(<<"0", "0", ":", "1", "5">>)],
      [LocationDescription |-> Some(<<"C">>), LocationCode |-> Some(<<"X", " ">>),
       EstimatedArrivalTime   |-> None,
       EstimatedDepartureTime |-> Some(<<"0", "0", ":", "2", "0">>)],
      [LocationDescription |-> Some(<<" ", "A">>), LocationCode |-> Some(<<>>),
       EstimatedArrivalTime   |-> Some(<<>>),
       EstimatedDepartureTime |-> Some(<<"0", "0", ":", "3", "0">>)],
      [LocationDescription |-> Some(<<" ">>), LocationCode |-> None,
       EstimatedArrivalTime   |-> None,
       EstimatedDepartureTime |-> None] }

\* a payload with the stops L: the first is the origin (StazionePartenza), the others are
\* scheduled stops (StazioniFerme); the API numbers them in order
SchedulePayload(L, dep_label, arr_label) ==
    LET numbered == [i \in 1..Len(L) |->
                        [StationNumber          |-> Some(i),
                         LocationDescription    |-> L[i].LocationDescription,
                         LocationCode           |-> L[i].LocationCode,
                         EstimatedArrivalTime   |-> L[i].EstimatedArrivalTime,
                         EstimatedDepartureTime |-> L[i].EstimatedDepartureTime]]
    IN  Some([IsEmpty |-> FALSE,
              TrainSchedule |->
                  Some([StazionePartenza |-> SubSeq(numbered, 1, Min(1, Len(L))),
                        StazioniFerme    |-> SubSeq(numbered, 2, Len(L)),
                        StazioniNonFerme |-> <<>>,
                        DepartureStationDescription |-> dep_label,
                        ArrivalStationDescription   |-> arr_label])])

\* the API names the departure and the arrival station after the first and the last stop
ApiPayload(L) ==
    SchedulePayload(L,
                    IF L = <<>> THEN None ELSE L[1].LocationDescription,
                    IF L = <<>> THEN None ELSE L[Len(L)].LocationDescription)

\* the API's answer for a train that does not run
EmptyPayload == Some([IsEmpty |-> TRUE, TrainSchedule |-> None])

\* the payloads of a given size: n >= 0 stops, NoRun for the empty answer,
\* NoFile for a train that is not in trains.txt
NoRun == 0 - 1

NoFile == 0 - 2

PayloadsOfSize(n) ==
    IF n = NoFile THEN {None}
    ELSE IF n = NoRun THEN {EmptyPayload}
    ELSE {ApiPayload(L) : L \in [1..n -> RawStopKinds]}

\* trains.txt has MaxTrains of the pool's trains; the other trains have no raw file
SizeChoices(i) == IF i <= MaxTrains THEN NoRun..MaxStops ELSE {NoFile}

StopCount(n) == IF n > 0 THEN n ELSE 0

TrainIndex(t) == CHOOSE i \in 1..Len(TrainPool) : TrainPool[i] = t

-----------------------------------------------------------------------------
(* The pipeline: normalize_italo.main, then build_gtfs.main *)

GtfsInit ==
    /\ stop_id_by_key = <<>>
    /\ stops_rows = <<>>
    /\ seen_stop_ids = {}
    /\ routes_rows = <<>>
    /\ trips_rows = <<>>
    /\ stop_times_rows = <<>>
    /\ used_route_ids = {}
    /\ dropped_stops_no_coords = 0
    /\ dropped_trips_too_few_stops = 0
    /\ resolutions = <<>>

\* no call of extract_stops_from_train_schedule on its own
NoExtractCall == raw_in = None /\ extracted = None

\* no call of parse_hhmm or infer_rollover_minutes on its own
NoTimeCall == clock_in = None /\ parsed = None /\ times_in = <<>> /\ rolled = <<>>

\* no run of extract_locations
NoLocationsRun == coords_file = <<>> /\ coords_before = <<>> /\ scanned = {} /\ loc_runs = 0

\* no run of make_normalized_latest
NoLatestRun == run_dirs = <<>> /\ out_dir = <<>> /\ out_before = <<>>

\* no call of slice_list on its own
NoSliceCall == items = <<>> /\ slice_size = 0 /\ slice_index = 0 /\ slice_out = None

\* no call of fetch_json on its own
NoFetchCall ==
    /\ retries = 0 /\ responses = <<>> /\ attempt = 0
    /\ last_err = None /\ requests = 0 /\ fetched = None

\* no run of report_stops
NoInventoryRun ==
    /\ inventory = <<>> /\ inventory_before = <<>> /\ observed = {}
    /\ run_utc = <<>> /\ inv_runs = 0

NoScrapeCall == NoSliceCall /\ NoFetchCall

NoReportRun == NoLatestRun /\ NoInventoryRun

\* stats as main starts (line 157)
ZeroStats == [normalized |-> 0, skipped_empty |-> 0, skipped_nonjson |-> 0, errors |-> 0]

\* the raw directory of a run: one payload per train, MaxTotalStops stops at most in all
Init ==
    /\ \E n1 \in SizeChoices(1), n2 \in SizeChoices(2), n3 \in SizeChoices(3) :
          /\ StopCount(n1) + StopCount(n2) + StopCount(n3) <= MaxTotalStops
          /\ \E p1 \in PayloadsOfSize(n1), p2 \in PayloadsOfSize(n2), p3 \in PayloadsOfSize(n3) :
                raw_files = [t \in Trains |-> <<p1, p2, p3>>[TrainIndex(t)]]
    /\ normalized = [t \in Trains |-> None]
    /\ pc = "normalize"
    /\ stats = ZeroStats
    /\ GtfsInit
    /\ NoScrapeCall
    /\ NoReportRun
    /\ NoExtractCall
    /\ NoTimeCall
    /\ NoLocationsRun

JsonSuffix == <<".", "j", "s", "o", "n">>

\* italo_scrape.main writes <train>.json for every train and _summary.json for the run
RawFileName(train) == train \o JsonSuffix

SummaryFileName == <<"_", "s", "u", "m", "m", "a", "r", "y">> \o JsonSuffix

\* os.listdir(in_dir)
InputDir == {RawFileName(t) : t \in Trains} \cup {SummaryFileName}

EndsWith(s, suffix) ==
    Len(s) >= Len(suffix) /\ SubSeq(s, Len(s) - Len(suffix) + 1, Len(s)) = suffix

\* s.replace(old, "")
RECURSIVE RemoveAll(_, _)
RemoveAll(s, old) ==
    IF Len(s) < Len(old) THEN s
    ELSE IF SubSeq(s, 1, Len(old)) = old THEN RemoveAll(SubSeq(s, Len(old) + 1, Len(s)), old)
    ELSE <<Head(s)>> \o RemoveAll(Tail(s), old)

\* IsRawFile that lets _summary.json through
IsRawFile_WithSummary(fname) == EndsWith(fname, JsonSuffix)

\* the files the loop of main does not skip (lines 160-163)
IsRawFile(fname) == EndsWith(fname, JsonSuffix) /\ fname # SummaryFileName

\* a file whose text is not JSON: json.load raises JSONDecodeError
NotJsonFile == Some([NotJson |-> TRUE])

\* a file whose JSON document is a non-empty array: raw.get raises AttributeError
JsonArrayFile == Some([Array |-> <<1>>])

\* a JSON object without a schedule: _summary.json, <train>.error.json, an API error answer
NoSchedulePayload == Some([IsEmpty |-> FALSE, TrainSchedule |-> None])

\* what load_json(in_path) finds
FileContent(fname) ==
    IF fname = SummaryFileName THEN NoSchedulePayload
    ELSE raw_files[RemoveAll(fname, JsonSuffix)]

JsonDecodeError(content) == content # None /\ "NotJson" \in DOMAIN content[1]

RaisesException(content) == content # None /\ "Array" \in DOMAIN content[1]

\* one pass of the loop of main (lines 165-183): the file written and the counter incremented
NormalizeFile(fname) ==
    LET train   == RemoveAll(fname, JsonSuffix)
        content == FileContent(fname)
    IN  IF JsonDecodeError(content) THEN [out |-> None, stat |-> "skipped_nonjson"]
        ELSE IF RaisesException(content) THEN [out |-> None, stat |-> "errors"]
        ELSE LET n == extract_stops_from_train_schedule(content, train)
             IN  IF n = None THEN [out |-> None, stat |-> "skipped_empty"]
                 ELSE [out |-> n, stat |-> "normalized"]

\* normalize_italo.main: every .json file of the input directory but _summary.json
NormalizeRun ==
    /\ pc = "normalize"
    /\ LET files == {f \in InputDir : IsRawFile(f)}
       IN  \E res \in {[f \in files |-> NormalizeFile(f)]} :
              /\ normalized' = [t \in Trains |->
                                   IF RawFileName(t) \in files THEN res[RawFileName(t)].out
                                   ELSE None]
              /\ stats' = [k \in DOMAIN ZeroStats |->
                              Cardinality({f \in files : res[f].stat = k})]
    /\ pc' = "build"
    /\ UNCHANGED <<scrape_vars, report_vars,
                   raw_files, gtfs_vars, extract_vars, time_vars, loc_vars>>

\* sorted(norm_files), line 159
norm_files ==
    SortedStrings({NormalizedFileName(t) : t \in {u \in Trains : normalized[u] # None}})

load_json(fn) ==
    normalized[CHOOSE t \in Trains : NormalizedFileName(t) = fn][1]

\* FinishTrip that does not count the trip it rejects
FinishTrip_Uncounted(g, kept, train, origin, dest) ==
    IF TooFewStops(kept) THEN g
    ELSE [g EXCEPT
            !.used_route_ids  = @ \cup {RouteId(train)},
            !.routes_rows     = Append(@, <<RouteId(train), AgencyId, train,
                                            RouteLongName(origin, dest), <<"2">>>>),
            !.trips_rows      = Append(@, <<RouteId(train), service_id, TripId(train), train>>),
            !.stop_times_rows = @ \o kept]

\* FinishTrip that records the route before it applies the minimum-stop rule
FinishTrip_RouteFirst(g, kept, train, origin, dest) ==
    LET g1 == [g EXCEPT
                 !.used_route_ids = @ \cup {RouteId(train)},
                 !.routes_rows    = Append(@, <<RouteId(train), AgencyId, train,
                                                RouteLongName(origin, dest), <<"2">>>>)]
    IN  IF TooFewStops(kept)
        THEN [g1 EXCEPT !.dropped_trips_too_few_stops = @ + 1]
        ELSE [g1 EXCEPT
                !.trips_rows      = Append(@, <<RouteId(train), service_id, TripId(train), train>>),
                !.stop_times_rows = @ \o kept]

\* lines 193-205: what the loop does with the trip once its stops are read.
\* g holds the tables and counters of main
FinishTrip(g, kept, train, origin, dest) ==
    IF TooFewStops(kept)
    THEN [g EXCEPT !.dropped_trips_too_few_stops = @ + 1]
    ELSE [g EXCEPT
            !.used_route_ids  = @ \cup {RouteId(train)},
            !.routes_rows     = Append(@, <<RouteId(train), AgencyId, train,
                                            RouteLongName(origin, dest), <<"2">>>>),
            !.trips_rows      = Append(@, <<RouteId(train), service_id, TripId(train), train>>),
            !.stop_times_rows = @ \o kept]

\* one pass of the loop over sorted(norm_files), lines 159-205
ProcessTrip(g, data) ==
    LET train == data.train_number
        st0   == [reg     |-> [stop_id_by_key |-> g.stop_id_by_key,
                               stops_rows     |-> g.stops_rows,
                               seen_stop_ids  |-> g.seen_stop_ids],
                  kept    |-> <<>>,
                  seq     |-> 0,
                  dropped |-> g.dropped_stops_no_coords,
                  log     |-> g.resolutions]
        st    == ProcessStops(st0, data.stops, TripId(train))
        g2    == [g EXCEPT !.stop_id_by_key          = st.reg.stop_id_by_key,
                           !.stops_rows              = st.reg.stops_rows,
                           !.seen_stop_ids           = st.reg.seen_stop_ids,
                           !.dropped_stops_no_coords = st.dropped,
                           !.resolutions             = st.log]
    IN  FinishTrip(g2, st.kept, train,
                   OrEmpty(data.origin_station), OrEmpty(data.destination_station))

RECURSIVE ProcessFiles(_, _)
ProcessFiles(g, files) ==
    IF files = <<>> THEN g
    ELSE ProcessFiles(ProcessTrip(g, load_json(Head(files))), Tail(files))

\* lines 85-86: no normalized file, SystemExit
BuildAbort ==
    /\ pc = "build"
    /\ norm_files = <<>>
    /\ pc' = "aborted"
    /\ UNCHANGED <<scrape_vars, report_vars,
                   raw_files, normalized, stats, gtfs_vars, extract_vars, time_vars, loc_vars>>

\* build_gtfs.main, lines 88-264: the loop over the files, then the tables as written
BuildRun ==
    /\ pc = "build"
    /\ norm_files # <<>>
    /\ LET g0 == [stop_id_by_key |-> stop_id_by_key, stops_rows |-> stops_rows,
                  seen_stop_ids |-> seen_stop_ids, routes_rows |-> routes_rows,
                  trips_rows |-> trips_rows, stop_times_rows |-> stop_times_rows,
                  used_route_ids |-> used_route_ids,
                  dropped_stops_no_coords |-> dropped_stops_no_coords,
                  dropped_trips_too_few_stops |-> dropped_trips_too_few_stops,
                  resolutions |-> resolutions]
       IN  \E g \in {ProcessFiles(g0, norm_files)} :
           /\ stop_id_by_key' = g.stop_id_by_key
           /\ stops_rows' = g.stops_rows
           /\ seen_stop_ids' = g.seen_stop_ids
           /\ routes_rows' = DedupRoutes(g.routes_rows, g.used_route_ids)
           /\ trips_rows' = g.trips_rows
           /\ stop_times_rows' = g.stop_times_rows
           /\ used_route_ids' = g.used_route_ids
           /\ dropped_stops_no_coords' = g.dropped_stops_no_coords
           /\ dropped_trips_too_few_stops' = g.dropped_trips_too_few_stops
           /\ resolutions' = g.resolutions
    /\ pc' = "done"
    /\ UNCHANGED <<scrape_vars, report_vars,
                   raw_files, normalized, stats, extract_vars, time_vars, loc_vars>>

Next == NormalizeRun \/ BuildAbort \/ BuildRun

Spec == Init /\ [][Next]_vars

-----------------------------------------------------------------------------
(* One run of normalize_italo.main over a directory with files of every kind *)

\* what a <train>.json of the input directory may hold
RawFileKinds ==
    {None, EmptyPayload, NoSchedulePayload, NotJsonFile, JsonArrayFile}
        \cup PayloadsOfSize(0) \cup PayloadsOfSize(1)

InitNormalize ==
    /\ raw_files \in [Trains -> RawFileKinds]
    /\ normalized = [t \in Trains |-> None]
    /\ pc = "normalize"
    /\ stats = ZeroStats
    /\ GtfsInit
    /\ NoScrapeCall
    /\ NoReportRun
    /\ NoExtractCall
    /\ NoTimeCall
    /\ NoLocationsRun

NextNormalize == NormalizeRun

SpecNormalize == InitNormalize /\ [][NextNormalize]_vars

-----------------------------------------------------------------------------
(* One call of extract_stops_from_train_schedule, on stops with any clock strings *)

ClockStrings ==
    { None,
      Some(<<"2", "3", ":", "5", "0">>),
      Some(<<"0", "0", ":", "1", "0">>),
      Some(<<"0", "0", ":", "0", "5">>),
      Some(<<"9", ":", "0", "5">>) }

StopNames == <<Some(<<"A">>), Some(<<"B">>), Some(<<"A">>), Some(<<"B">>)>>

\* stops numbered in order, with arrival arr[i] and departure dep[i]
TimedStops(arr, dep) ==
    [i \in 1..Len(arr) |->
        [LocationDescription    |-> StopNames[i],
         LocationCode           |-> None,
         EstimatedArrivalTime   |-> arr[i],
         EstimatedDepartureTime |-> dep[i]]]

\* the StationNumber of a stop: left out (or not a number), or a number
StationNumbers == {None, Some(1), Some(2), Some(7)}

\* names that tell the stops of a payload apart, in the order of concatenation
OrderNames == <<Some(<<"A">>), Some(<<"B">>), Some(<<"C">>), Some(<<"D">>), Some(<<"E">>)>>

\* a payload whose stops carry the StationNumbers nums: the first origin ones are the
\* StazionePartenza, the ones up to scheduled are StazioniFerme, the others StazioniNonFerme
NumberedPayload(nums, origin, scheduled) ==
    LET stops == [i \in 1..Len(nums) |->
                     [StationNumber          |-> nums[i],
                      LocationDescription    |-> OrderNames[i],
                      LocationCode           |-> None,
                      EstimatedArrivalTime   |-> None,
                      EstimatedDepartureTime |-> None]]
    IN  Some([IsEmpty |-> FALSE,
              TrainSchedule |->
                  Some([StazionePartenza |-> SubSeq(stops, 1, origin),
                        StazioniFerme    |-> SubSeq(stops, origin + 1, scheduled),
                        StazioniNonFerme |-> SubSeq(stops, scheduled + 1, Len(stops)),
                        DepartureStationDescription |-> None,
                        ArrivalStationDescription   |-> None])])

InitExtract ==
    /\ \/ raw_in = EmptyPayload
       \/ \E n \in 0..MaxStops :
            \E arr \in [1..n -> ClockStrings], dep \in [1..n -> ClockStrings] :
                raw_in = SchedulePayload(TimedStops(arr, dep), Some(<<"A">>), Some(<<"B">>))
       \/ \E n \in 0..MaxStops :
            \E nums \in [1..n -> StationNumbers], origin \in 0..Min(1, n) :
                \E scheduled \in origin..n :
                    raw_in = NumberedPayload(nums, origin, scheduled)
    /\ extracted = None
    /\ pc = "extract"
    /\ raw_files = <<>>
    /\ normalized = <<>>
    /\ stats = ZeroStats
    /\ GtfsInit
    /\ NoScrapeCall
    /\ NoReportRun
    /\ NoTimeCall
    /\ NoLocationsRun

Extract ==
    /\ pc = "extract"
    /\ extracted' = extract_stops_from_train_schedule(raw_in, TrainPool[1])
    /\ pc' = "extracted"
    /\ UNCHANGED <<scrape_vars, report_vars,
                   raw_in, raw_files, normalized, stats, gtfs_vars, time_vars, loc_vars>>

NextExtract == Extract

SpecExtract == InitExtract /\ [][NextExtract]_vars

-----------------------------------------------------------------------------
(* One call of parse_hhmm or of infer_rollover_minutes *)

\* the characters of the strings given to parse_hhmm
ClockAlphabet == {"0", "2", "9", ":", "x"}

\* the minute values of the lists given to infer_rollover_minutes, all within one day
TimeValues == {None, Some(0), Some(5), Some(10), Some(1430), Some(1439)}

InitTime ==
    /\ \/ /\ pc = "parse"
          /\ \/ clock_in = None
             \/ \E n \in 0..MaxClockLen : \E str \in [1..n -> ClockAlphabet] :
                   clock_in = Some(str)
          /\ times_in = <<>>
       \/ /\ pc = "rollover"
          /\ \E n \in 0..MaxTimes : times_in \in [1..n -> TimeValues]
          /\ clock_in = None
    /\ parsed = None
    /\ rolled = <<>>
    /\ raw_files = <<>>
    /\ normalized = <<>>
    /\ stats = ZeroStats
    /\ GtfsInit
    /\ NoScrapeCall
    /\ NoReportRun
    /\ NoExtractCall
    /\ NoLocationsRun

ParseClock ==
    /\ pc = "parse"
    /\ parsed' = parse_hhmm(clock_in)
    /\ pc' = "parsed"
    /\ UNCHANGED <<scrape_vars, report_vars,
                   clock_in, times_in, rolled, raw_files, normalized, stats, gtfs_vars,
                   extract_vars, loc_vars>>

InferRollover ==
    /\ pc = "rollover"
    /\ rolled' = infer_rollover_minutes(times_in)
    /\ pc' = "rolled"
    /\ UNCHANGED <<scrape_vars, report_vars,
                   clock_in, parsed, times_in, raw_files, normalized, stats, gtfs_vars,
                   extract_vars, loc_vars>>

NextTime == ParseClock \/ InferRollover

SpecTime == InitTime /\ [][NextTime]_vars

-----------------------------------------------------------------------------
(* extract_locations.py: runs of main over the same coordinates.csv *)

\* str.casefold() on the letters of the model's names
CaseFold(s) ==
    [i \in 1..Len(s) |->
        IF s[i] = "A" THEN "a" ELSE IF s[i] = "B" THEN "b" ELSE IF s[i] = "C" THEN "c"
        ELSE s[i]]

\* the dict load_existing_coords returns (lines 27-38): stripped name -> <<lat, lon>>,
\* stripped; a line without a name is skipped, a later line of a name wins
load_existing_coords(rows) ==
    LET named   == {i \in 1..Len(rows) : Strip(rows[i].location_name) # <<>>}
        last(n) == CHOOSE i \in named :
                      /\ Strip(rows[i].location_name) = n
                      /\ \A j \in named : j > i => Strip(rows[j].location_name) # n
    IN  [n \in {Strip(rows[i].location_name) : i \in named} |->
            <<Strip(rows[last(n)].lat), Strip(rows[last(n)].lon)>>]

\* add_name (lines 76-80): the stripped name, when there is one
add_name(n) ==
    IF Truthy(n) /\ Strip(n[1]) # <<>> THEN {Strip(n[1])} ELSE {}

\* the names one raw file adds to the set (lines 66-92)
NamesOfFile(raw) ==
    IF JsonDecodeError(raw) THEN {}
    ELSE IF raw = None \/ raw[1].TrainSchedule = None THEN {}
    ELSE LET ts    == raw[1].TrainSchedule[1]
             stops == ts.StazionePartenza \o ts.StazioniFerme \o ts.StazioniNonFerme
         IN  UNION {add_name(stops[i].LocationDescription) : i \in 1..Len(stops)}
                 \cup add_name(ts.ArrivalStationDescription)

\* MergeCoords that blanks every pair
MergeCoords_Blank(existing, names) == [n \in names |-> << <<>>, <<>> >>]

\* step 3 of main (lines 95-100): existing pairs are kept, new names get blanks
MergeCoords(existing, names) ==
    [n \in names |-> IF n \in DOMAIN existing THEN existing[n] ELSE << <<>>, <<>> >>]

\* sorted(rows.keys(), key=casefold) over a dict filled from a set: names with the same
\* casefold key come out in the order the set happens to iterate
RECURSIVE SortedByCasefold(_)
SortedByCasefold(S) ==
    IF S = {} THEN {<<>>}
    ELSE UNION {{<<m>> \o rest : rest \in SortedByCasefold(S \ {m})} :
                m \in {x \in S : \A y \in S : ~StrLess(CaseFold(y), CaseFold(x))}}

\* write_coords (lines 41-50): the rows of the file, in the order given
write_coords(order, rows) ==
    [i \in 1..Len(order) |->
        [location_name |-> order[i], lat |-> rows[order[i]][1], lon |-> rows[order[i]][2]]]

\* lines of a coordinates.csv somebody has edited by hand
EditedRows ==
    << [location_name |-> <<"A">>,           lat |-> <<"4", "5">>, lon |-> <<"9">>],
       [location_name |-> <<" ", "b", " ">>, lat |-> <<" ", "1">>, lon |-> <<"2">>],
       [location_name |-> <<"A">>,           lat |-> <<>>,         lon |-> <<>>],
       [location_name |-> <<" ">>,           lat |-> <<"7">>,      lon |-> <<"7">>] >>

\* the lines of EditedRows at the positions keep
RECURSIVE RowsAt(_, _)
RowsAt(keep, i) ==
    IF i > Len(EditedRows) THEN <<>>
    ELSE (IF i \in keep THEN <<EditedRows[i]>> ELSE <<>>) \o RowsAt(keep, i + 1)

NamedStop(name) ==
    [LocationDescription |-> name, LocationCode |-> None,
     EstimatedArrivalTime |-> None, EstimatedDepartureTime |-> None]

\* raw files under --input-dir: the scraper writes JSON objects; a file may be damaged
ScanPool ==
    { NotJsonFile,
      EmptyPayload,
      SchedulePayload(<<NamedStop(Some(<<"A">>)), NamedStop(Some(<<"C", " ">>))>>,
                      Some(<<"A">>), Some(<<"C", " ">>)),
      SchedulePayload(<<NamedStop(Some(<<" ", "b">>)), NamedStop(None)>>,
                      None, Some(<<"B">>)) }

InitLocations ==
    /\ \E keep \in SUBSET (1..Len(EditedRows)) : coords_file = RowsAt(keep, 1)
    /\ coords_before = <<>>
    /\ scanned = {}
    /\ loc_runs = 0
    /\ pc = "locations"
    /\ raw_files = <<>>
    /\ normalized = <<>>
    /\ stats = ZeroStats
    /\ GtfsInit
    /\ NoScrapeCall
    /\ NoReportRun
    /\ NoExtractCall
    /\ NoTimeCall

\* extract_locations.main (lines 59-102) over the raw files of an input directory
ExtractLocationsRun ==
    /\ pc = "locations"
    /\ loc_runs < MaxRuns
    /\ \E files \in SUBSET ScanPool :
          \E existing \in {load_existing_coords(coords_file)} :
             \E merged \in {MergeCoords(existing,
                                        DOMAIN existing
                                            \cup UNION {NamesOfFile(f) : f \in files})} :
                \E order \in SortedByCasefold(DOMAIN merged) :
                   /\ coords_file' = write_coords(order, merged)
                   /\ scanned' = files
    /\ coords_before' = coords_file
    /\ loc_runs' = loc_runs + 1
    /\ UNCHANGED <<scrape_vars, report_vars,
                   pc, raw_files, normalized, stats, gtfs_vars, extract_vars, time_vars>>

NextLocations == ExtractLocationsRun

SpecLocations == InitLocations /\ [][NextLocations]_vars

-----------------------------------------------------------------------------
(* make_normalized_latest.py *)

\* run directories a normalized root can hold at most
MaxRunDirs == 2

\* names of run directories; as strings "10" sorts between "1" and "2"
RunNames == {<<"1">>, <<"1", "0">>, <<"2">>}

\* the files a run directory can hold: a normalized record per train and the run's summary
RunFilePool ==
    {NormalizedFileName(TrainPool[1]), NormalizedFileName(TrainPool[2]), SummaryFileName}

\* a file of normalized_latest/ that no run directory holds
StaleFile == NormalizedFileName(TrainPool[3])

\* what an earlier merge left in normalized_latest/
EarlierContent == <<"0">>

\* run.glob("*.normalized.json"), line 27
GlobNormalized(dir) == {f \in DOMAIN dir : EndsWith(f, NormalizedSuffix)}

\* sorted_run_dirs in descending order
sorted_run_dirs_Descending(root) == SortedStrings_Descending(DOMAIN root)

\* sorted(p for p in normalized_root.iterdir() if p.is_dir()), line 21
sorted_run_dirs(root) == SortedStrings(DOMAIN root)

\* lines 27-31: every matching file of the run is copied over the file of its name
CopyRun(out, dir) ==
    [f \in DOMAIN out \cup GlobNormalized(dir) |->
        IF f \in GlobNormalized(dir) THEN dir[f] ELSE out[f]]

\* the loop over the run directories, lines 26-31
RECURSIVE CopyRuns(_, _, _)
CopyRuns(out, root, runs) ==
    IF runs = <<>> THEN out
    ELSE CopyRuns(CopyRun(out, root[Head(runs)]), root, Tail(runs))

\* a normalized root with up to MaxRunDirs run directories, every file carrying the name of
\* the run that wrote it, and an output directory that earlier merges may have filled
InitLatest ==
    /\ \E R \in SUBSET RunNames :
          /\ Cardinality(R) <= MaxRunDirs
          /\ \E files \in [R -> SUBSET RunFilePool] :
                run_dirs = [r \in R |-> [f \in files[r] |-> r]]
    /\ \E old \in SUBSET (RunFilePool \cup {StaleFile}) :
          out_dir = [f \in old |-> EarlierContent]
    /\ out_before = <<>>
    /\ pc = "latest"
    /\ raw_files = <<>>
    /\ normalized = <<>>
    /\ stats = ZeroStats
    /\ GtfsInit
    /\ NoExtractCall
    /\ NoTimeCall
    /\ NoLocationsRun
    /\ NoScrapeCall
    /\ NoInventoryRun

\* lines 22-23: no run directory, SystemExit
MergeAbort ==
    /\ pc = "latest"
    /\ DOMAIN run_dirs = {}
    /\ pc' = "aborted"
    /\ UNCHANGED <<scrape_vars, latest_vars, inventory_vars, raw_files, normalized, stats,
                   gtfs_vars, extract_vars, time_vars, loc_vars>>

\* make_normalized_latest.main, lines 19-35
MergeLatest ==
    /\ pc = "latest"
    /\ DOMAIN run_dirs # {}
    /\ out_dir' = CopyRuns(out_dir, run_dirs, sorted_run_dirs(run_dirs))
    /\ out_before' = out_dir
    /\ pc' = "merged"
    /\ UNCHANGED <<scrape_vars, inventory_vars, run_dirs, raw_files, normalized, stats,
                   gtfs_vars, extract_vars, time_vars, loc_vars>>

NextLatest == MergeAbort \/ MergeLatest

SpecLatest == InitLatest /\ [][NextLatest]_vars

-----------------------------------------------------------------------------
(* italo_scrape.py: slice_list *)

\* longest train list
MaxItems == 4

\* largest --slice-size
MaxSliceSize == 3

\* largest --slice-index, in absolute value
MaxSliceIndex == 5

\* line 56
NumSlices(len, size) == (len + size - 1) \div size

\* SliceStart that moves on by one train per slice
SliceStart_Overlapping(idx, size) == idx

\* line 58
SliceStart(idx, size) == idx * size

\* lines 54-60, for slice_size > 0; items[start:end] is SubSeq(items, start + 1, end)
slice_list(list, size, index) ==
    IF list = <<>> THEN <<>>
    ELSE LET num_slices == NumSlices(Len(list), size)
             idx        == index % num_slices
             start      == SliceStart(idx, size)
             end        == Min(Len(list), start + size)
         IN  SubSeq(list, start + 1, end)

\* a train list, a slice size and a slice index, as the command line gives them
InitSlice ==
    /\ \E n \in 0..MaxItems : items \in [1..n -> {TrainPool[1], TrainPool[2]}]
    /\ slice_size \in -1..MaxSliceSize
    /\ slice_index \in -MaxSliceIndex..MaxSliceIndex
    /\ slice_out = None
    /\ pc = "slice"
    /\ raw_files = <<>>
    /\ normalized = <<>>
    /\ stats = ZeroStats
    /\ GtfsInit
    /\ NoExtractCall
    /\ NoTimeCall
    /\ NoLocationsRun
    /\ NoFetchCall
    /\ NoReportRun

\* lines 52-53: ValueError
SliceRaise ==
    /\ pc = "slice"
    /\ slice_size <= 0
    /\ pc' = "raised"
    /\ UNCHANGED <<scrape_vars, report_vars, raw_files, normalized, stats,
                   gtfs_vars, extract_vars, time_vars, loc_vars>>

\* slice_list, lines 51-60
SliceList ==
    /\ pc = "slice"
    /\ slice_size > 0
    /\ slice_out' = Some(slice_list(items, slice_size, slice_index))
    /\ pc' = "sliced"
    /\ UNCHANGED <<items, slice_size, slice_index, fetch_vars, report_vars, raw_files,
                   normalized, stats, gtfs_vars, extract_vars, time_vars, loc_vars>>

NextSlice == SliceRaise \/ SliceList

SpecSlice == InitSlice /\ [][NextSlice]_vars

-----------------------------------------------------------------------------
(* italo_scrape.py: fetch_json *)

\* largest --retries
MaxRetries == 2

\* what a request can meet: session.get raises, or answers with a status and a body; json is
\* what r.json() gives for the body: nothing when the body is no JSON (r.json() raises), else
\* the decoded value, which is Python's None for the JSON text null
ServerResponses ==
    { [raised |-> Some("timed out"), status |-> 0,   json |-> None],
      [raised |-> None,              status |-> 503, json |-> Some(Some("object"))],
      [raised |-> None,              status |-> 200, json |-> None],
      [raised |-> None,              status |-> 200, json |-> Some(None)],
      [raised |-> None,              status |-> 200, json |-> Some(Some("object"))] }

\* f"HTTP {r.status_code}", line 32
HttpError(status) == IF status = 503 THEN "HTTP 503" ELSE "HTTP other"

\* str(e) of the exception r.json() raises for a body that is no JSON
DecodeError == "Expecting value"

\* the attempt reaches line 35 and r.json() returns
Succeeds(resp) == resp.raised = None /\ resp.status = 200 /\ resp.json # None

\* last_err after an attempt that does not return (lines 32 and 37)
ErrorOf(resp) ==
    IF resp.raised # None THEN resp.raised[1]
    ELSE IF resp.status # 200 THEN HttpError(resp.status)
    ELSE DecodeError

\* one call, with the answers the server will give to its requests
InitFetch ==
    /\ retries \in 0..MaxRetries
    /\ responses \in [1..(retries + 1) -> ServerResponses]
    /\ attempt = 0
    /\ last_err = None
    /\ requests = 0
    /\ fetched = None
    /\ pc = "fetch"
    /\ raw_files = <<>>
    /\ normalized = <<>>
    /\ stats = ZeroStats
    /\ GtfsInit
    /\ NoExtractCall
    /\ NoTimeCall
    /\ NoLocationsRun
    /\ NoSliceCall
    /\ NoReportRun

\* an attempt that fails: lines 30-34 or 36-38
FetchFail ==
    /\ pc = "fetch"
    /\ attempt <= retries
    /\ ~Succeeds(Head(responses))
    /\ requests' = requests + 1
    /\ last_err' = Some(ErrorOf(Head(responses)))
    /\ attempt' = attempt + 1
    /\ responses' = Tail(responses)
    /\ UNCHANGED <<pc, retries, fetched, slice_vars, report_vars, raw_files, normalized,
                   stats, gtfs_vars, extract_vars, time_vars, loc_vars>>

\* an attempt that returns: lines 30-35
FetchReturn ==
    /\ pc = "fetch"
    /\ attempt <= retries
    /\ Succeeds(Head(responses))
    /\ requests' = requests + 1
    /\ fetched' = Some([payload |-> Head(responses).json[1], err |-> None])
    /\ responses' = Tail(responses)
    /\ pc' = "returned"
    /\ UNCHANGED <<retries, attempt, last_err, slice_vars, report_vars, raw_files,
                   normalized, stats, gtfs_vars, extract_vars, time_vars, loc_vars>>

\* the loop is over: line 39
FetchGiveUp ==
    /\ pc = "fetch"
    /\ attempt > retries
    /\ fetched' = Some([payload |-> None, err |-> last_err])
    /\ pc' = "returned"
    /\ UNCHANGED <<retries, responses, attempt, last_err, requests, slice_vars,
                   report_vars, raw_files, normalized, stats, gtfs_vars, extract_vars,
                   time_vars, loc_vars>>

NextFetch == FetchFail \/ FetchReturn \/ FetchGiveUp

SpecFetch == InitFetch /\ [][NextFetch]_vars

-----------------------------------------------------------------------------
(* report_stops.py: the cumulative stop inventory *)

\* runs of report_stops
MaxInvRuns == 2

\* stop names and run identifiers
InventoryNames == {<<"A">>, <<"B">>, <<"C">>}

RunIds == {<<"2">>, <<"3">>}

\* entries a stop_inventory.json can hold when the first run reads it: written by an
\* earlier run, edited by hand with fields left out, or with an empty first_seen_utc
FileEntries ==
    { [first_seen_utc |-> Some(<<"1">>), last_seen_utc |-> Some(<<"1">>), seen_count |-> Some(1)],
      [first_seen_utc |-> None,          last_seen_utc |-> None,          seen_count |-> None],
      [first_seen_utc |-> Some(<<>>),    last_seen_utc |-> Some(<<"1">>), seen_count |-> Some(2)] }

\* load_inventory, lines 150-164: str(v.get(..) or ""), int(v.get("seen_count") or 0)
load_inventory(file) ==
    [k \in DOMAIN file |->
        [first_seen_utc |-> OrEmpty(file[k].first_seen_utc),
         last_seen_utc  |-> OrEmpty(file[k].last_seen_utc),
         seen_count     |-> IF file[k].seen_count = None THEN 0 ELSE file[k].seen_count[1]]]

\* write_json(inventory_out, inventory), line 316
write_inventory(inv) ==
    [k \in DOMAIN inv |->
        [first_seen_utc |-> Some(inv[k].first_seen_utc),
         last_seen_utc  |-> Some(inv[k].last_seen_utc),
         seen_count     |-> Some(inv[k].seen_count)]]

\* merge_inventory that starts the entry of an observed name afresh
merge_inventory_Reset(inv, obs, run) ==
    [name \in DOMAIN inv \cup obs |->
        IF name \notin obs THEN inv[name]
        ELSE [first_seen_utc |-> run, last_seen_utc |-> run, seen_count |-> 1]]

\* merge_inventory, lines 167-184
merge_inventory(inv, obs, run) ==
    [name \in DOMAIN inv \cup obs |->
        IF name \notin obs THEN inv[name]
        ELSE IF name \notin DOMAIN inv
        THEN [first_seen_utc |-> run, last_seen_utc |-> run, seen_count |-> 1]
        ELSE [first_seen_utc |-> IF inv[name].first_seen_utc = <<>> THEN run
                                 ELSE inv[name].first_seen_utc,
              last_seen_utc  |-> run,
              seen_count     |-> inv[name].seen_count + 1]]

\* the inventory file before the first run
InitInventory ==
    /\ \E names \in SUBSET {<<"A">>, <<"B">>} : inventory \in [names -> FileEntries]
    /\ inventory_before = <<>>
    /\ observed = {}
    /\ run_utc = <<>>
    /\ inv_runs = 0
    /\ pc = "report"
    /\ raw_files = <<>>
    /\ normalized = <<>>
    /\ stats = ZeroStats
    /\ GtfsInit
    /\ NoExtractCall
    /\ NoTimeCall
    /\ NoLocationsRun
    /\ NoScrapeCall
    /\ NoLatestRun

\* report_stops.main in cumulative mode, lines 306-316: --inventory-in and --inventory-out
\* name the same file, observed is what collect_observed_stops found in the run
ReportRun ==
    /\ pc = "report"
    /\ inv_runs < MaxInvRuns
    /\ \E obs \in SUBSET InventoryNames, id \in RunIds :
          /\ inventory' = write_inventory(merge_inventory(load_inventory(inventory), obs, id))
          /\ observed' = obs
          /\ run_utc' = id
    /\ inventory_before' = inventory
    /\ inv_runs' = inv_runs + 1
    /\ UNCHANGED <<pc, scrape_vars, latest_vars, raw_files, normalized, stats,
                   gtfs_vars, extract_vars, time_vars, loc_vars>>

NextInventory == ReportRun

SpecInventory == InitInventory /\ [][NextInventory]_vars

-----------------------------------------------------------------------------
(* What the claims speak of *)

Done == pc = "done"

\* the normalized records build_gtfs has read
Records == {normalized[t][1] : t \in {u \in Trains : normalized[u] # None}}

NameOf(s) == Strip(OrEmpty(s.stop_name))

CodeOf(s) == Strip(OrEmpty(s.location_code))

\* both coordinates present, numeric and within [-90,90] / [-180,180]
InRange(lat, lon) ==
    /\ lat # <<>> /\ lon # <<>>
    /\ float(lat) # None /\ float(lon) # None
    /\ float(lat)[1] \in -90..90
    /\ float(lon)[1] \in -180..180

CoordOk(name) == InRange(coords_for_name(name)[1], coords_for_name(name)[2])

\* the stop has a name and its name has a valid coordinate
Survives(s) == NameOf(s) # <<>> /\ CoordOk(NameOf(s))

SurvivingCount(rec) == Cardinality({i \in 1..Len(rec.stops) : Survives(rec.stops[i])})

RowsOfTrip(trip_id) == SelectSeq(stop_times_rows, LAMBDA r : r[1] = trip_id)

TripIds == {trips_rows[i][3] : i \in 1..Len(trips_rows)}

Retained(rec) == TripId(rec.train_number) \in TripIds

-----------------------------------------------------------------------------
(* C1 *)

\* C1 as stated: in the stop-times table the row with the lowest sequence number of every
\* retained trip has an empty arrival and the row with the highest an empty departure.
C1_BoundaryStripped ==
    Done => \A tid \in TripIds :
                LET rows == RowsOfTrip(tid)
                IN  rows[1][2] = <<>> /\ rows[Len(rows)][3] = <<>>

\* C1 amended: every normalized record has no arrival at its first stop and no departure at
\* its last stop; build_gtfs fills the missing value with a copy of the other one, so the
\* stop-times row of a surviving first stop has arrival = departure, and so has the row of a
\* surviving last stop.
C1_StrippedThenCopied ==
    /\ \A rec \in Records :
          rec.stops # <<>> =>
              /\ rec.stops[1].arrival_time = None
              /\ rec.stops[Len(rec.stops)].departure_time = None
    /\ Done => \A rec \in Records :
          Retained(rec) =>
              LET rows == RowsOfTrip(TripId(rec.train_number))
              IN  /\ Survives(rec.stops[1]) => rows[1][2] = rows[1][3]
                  /\ Survives(rec.stops[Len(rec.stops)]) =>
                         rows[Len(rows)][3] = rows[Len(rows)][2]

\* a retained trip whose first stop survived and reports a departure
C1_Witness ==
    /\ Done
    /\ \E rec \in Records :
          /\ Retained(rec)
          /\ Survives(rec.stops[1])
          /\ rec.stops[1].departure_time # None
          /\ RowsOfTrip(TripId(rec.train_number))[1][2] # <<>>

-----------------------------------------------------------------------------
(* C2 *)

\* the minutes of the stops that report a value, in stop order
PresentValues(mins, from, to) ==
    LET idx == {i \in from..to : mins[i] # None}
    IN  [i \in idx |-> mins[i][1]]

NonDecreasing(f) == \A i, j \in DOMAIN f : i < j => f[i] <= f[j]

ExtractedStops == GatherStops(raw_in[1].TrainSchedule[1])

\* C2: in the stop list extract_stops_from_train_schedule produces, the arrival minutes of the
\* stops that have one are non-decreasing in stop order, and so are the departure minutes.
C2_Monotone ==
    (pc = "extracted" /\ extracted # None) =>
        LET mins == ReconcileTimes(ExtractedStops)
            n    == Len(ExtractedStops)
        IN  /\ NonDecreasing(PresentValues(mins.arr, 2, n))
            /\ NonDecreasing(PresentValues(mins.dep, 1, n - 1))

-----------------------------------------------------------------------------
(* C3 *)

\* C3: a record with fewer than 2 surviving stops has no trips row and no stop-times row;
\* every trip of the trips table has at least 2 stop-times rows.
C3_MinimumStops ==
    Done =>
        /\ \A rec \in Records :
              SurvivingCount(rec) < 2 =>
                  /\ ~Retained(rec)
                  /\ RowsOfTrip(TripId(rec.train_number)) = <<>>
        /\ \A tid \in TripIds : Len(RowsOfTrip(tid)) >= 2

\* a record with exactly one surviving stop, next to a retained trip
C3_Witness ==
    /\ Done
    /\ \E rec \in Records : SurvivingCount(rec) = 1 /\ ~Retained(rec)
    /\ trips_rows # <<>>

-----------------------------------------------------------------------------
(* C4 *)

\* C4: the stop_sequence values of the rows of a retained trip, in emission order, are
\* 0, 1, ..., N-1.
C4_Contiguous ==
    Done => \A tid \in TripIds :
                LET rows == RowsOfTrip(tid)
                IN  \A i \in 1..Len(rows) : rows[i][5] = IntToStr(i - 1)

\* a retained trip with a stop dropped for its coordinates between two kept stops
C4_Witness ==
    /\ Done
    /\ \E rec \in Records :
          /\ Retained(rec)
          /\ \E i, j, k \in 1..Len(rec.stops) :
                /\ i < j /\ j < k
                /\ Survives(rec.stops[i]) /\ Survives(rec.stops[k])
                /\ NameOf(rec.stops[j]) # <<>> /\ ~Survives(rec.stops[j])

-----------------------------------------------------------------------------
(* C5 *)

\* the stop observations build_gtfs reads: every named stop of every record
Observations ==
    UNION {{rec.stops[i] : i \in {j \in 1..Len(rec.stops) : NameOf(rec.stops[j]) # <<>>}} :
           rec \in Records}

StopRowIds == {stops_rows[i][1] : i \in 1..Len(stops_rows)}

-----------------------------------------------------------------------------
(* C6 *)

RouteIds == {routes_rows[i][1] : i \in 1..Len(routes_rows)}

\* C6: every route id of the routes table is the route id of a trips row, no route id has two
\* routes rows, and a record rejected by the minimum-stop rule leaves no route of its own.
C6_RouteUsage ==
    Done =>
        /\ \A r \in RouteIds : \E i \in 1..Len(trips_rows) : trips_rows[i][1] = r
        /\ \A i, j \in 1..Len(routes_rows) : routes_rows[i][1] = routes_rows[j][1] => i = j
        /\ \A rec \in Records :
              SurvivingCount(rec) < 2 => RouteId(rec.train_number) \notin RouteIds

\* a rejected record next to a route of a retained trip
C6_Witness ==
    /\ Done
    /\ routes_rows # <<>>
    /\ \E rec \in Records : rec.stops # <<>> /\ SurvivingCount(rec) < 2

-----------------------------------------------------------------------------
(* C7 *)

\* C7: observations with the same identity key get the same outcome: after a kept one every
\* later one is kept with the same stop id, after a dropped one every later one is dropped.
C7_SameOutcomePerKey ==
    \A i, j \in 1..Len(resolutions) :
        (i < j /\ resolutions[i].key = resolutions[j].key) =>
            /\ resolutions[i].kept = resolutions[j].kept
            /\ resolutions[i].stop_id = resolutions[j].stop_id

-----------------------------------------------------------------------------
(* C8 *)

RolloverExample ==
    ApiPayload(<< [LocationDescription |-> Some(<<"A">>), LocationCode |-> None,
                   EstimatedArrivalTime   |-> Some(<<"2", "3", ":", "5", "0">>),
                   EstimatedDepartureTime |-> Some(<<"2", "3", ":", "5", "5">>)],
                  [LocationDescription |-> Some(<<"B">>), LocationCode |-> Some(<<"X">>),
                   EstimatedArrivalTime   |-> Some(<<"0", "0", ":", "1", "0">>),
                   EstimatedDepartureTime |-> Some(<<"0", "0", ":", "1", "5">>)] >>)

ExampleTrain == TrainPool[1]

ExampleRows == RowsOfTrip(TripId(ExampleTrain))

T2355 == <<"2", "3", ":", "5", "5", ":", "0", "0">>

T2410 == <<"2", "4", ":", "1", "0", ":", "0", "0">>

T2415 == <<"2", "4", ":", "1", "5", ":", "0", "0">>

\* C8 as stated: the stop-times of the example are A without arrival and with departure
\* 23:55:00, B with arrival 24:10:00 and departure 24:15:00.
C8_ExampleAsStated ==
    (Done /\ raw_files[ExampleTrain] = RolloverExample) =>
        /\ Len(ExampleRows) = 2
        /\ ExampleRows[1][2] = <<>>  /\ ExampleRows[1][3] = T2355
        /\ ExampleRows[2][2] = T2410 /\ ExampleRows[2][3] = T2415

\* C8 amended: the stop-times of the example are A with arrival and departure 23:55:00 (the
\* arrival is a copy of the departure) and B with arrival and departure 24:10:00 (B is the
\* last stop, its departure is a copy of its rolled-over arrival).
C8_ExampleAsBuilt ==
    (Done /\ raw_files[ExampleTrain] = RolloverExample) =>
        /\ Len(ExampleRows) = 2
        /\ ExampleRows[1][2] = T2355 /\ ExampleRows[1][3] = T2355
        /\ ExampleRows[2][2] = T2410 /\ ExampleRows[2][3] = T2410
        /\ ExampleRows[1][5] = <<"0">> /\ ExampleRows[2][5] = <<"1">>

\* the example has been built into a trip
C8_Witness ==
    /\ Done
    /\ raw_files[ExampleTrain] = RolloverExample
    /\ TripId(ExampleTrain) \in TripIds

-----------------------------------------------------------------------------
(* C9 *)

Ascending(ids) == \A i, j \in 1..Len(ids) : i < j => StrLess(ids[i], ids[j])

StopIdColumn == [i \in 1..Len(stops_rows) |-> stops_rows[i][1]]

RouteIdColumn == [i \in 1..Len(routes_rows) |-> routes_rows[i][1]]

\* the stop ids in the order in which the run first kept them
RECURSIVE FirstKept(_, _)
FirstKept(log, seen) ==
    IF log = <<>> THEN <<>>
    ELSE IF Head(log).kept /\ Head(log).stop_id[1] \notin seen
    THEN <<Head(log).stop_id[1]>> \o FirstKept(Tail(log), seen \cup {Head(log).stop_id[1]})
    ELSE FirstKept(Tail(log), seen)

\* C9 as stated: the stops rows ascend by stop id and the routes rows ascend by route id.
C9_BothSorted == Done => Ascending(StopIdColumn) /\ Ascending(RouteIdColumn)

\* C9 amended: the routes rows ascend by route id; the stops rows are in the order in which
\* their stops were first kept while the files were read in ascending file-name order.
C9_RoutesSortedStopsFirstKept ==
    Done => /\ Ascending(RouteIdColumn)
            /\ StopIdColumn = FirstKept(resolutions, {})

\* two routes, and stops rows that do not ascend
C9_Witness ==
    /\ Done
    /\ Len(routes_rows) >= 2
    /\ ~Ascending(StopIdColumn)

-----------------------------------------------------------------------------
(* C10 *)

StopNameOf(id) == stops_rows[CHOOSE i \in 1..Len(stops_rows) : stops_rows[i][1] = id][2]

TripOfRoute(r) == trips_rows[CHOOSE i \in 1..Len(trips_rows) : trips_rows[i][1] = r][3]

\* C10 as stated: the long name of every route is the name of the first stop of its trip,
\* the separator, and the name of the last stop of its trip.
C10_LabelFromTripStops ==
    Done => \A i \in 1..Len(routes_rows) :
                LET rows == RowsOfTrip(TripOfRoute(routes_rows[i][1]))
                IN  routes_rows[i][4] = StopNameOf(rows[1][4]) \o LongNameSeparator
                                        \o StopNameOf(rows[Len(rows)][4])

\* C10 amended: the long name of every route is the origin_station of the record of its trip,
\* the separator, and the record's destination_station, each empty when absent; they are the
\* payload's DepartureStationDescription and ArrivalStationDescription, whether or not those
\* stations survive as stops of the trip.
C10_LabelFromRecord ==
    Done => \A i \in 1..Len(routes_rows) :
                \E t \in Trains :
                    /\ normalized[t] # None
                    /\ routes_rows[i][1] = RouteId(t)
                    /\ normalized[t][1].origin_station =
                           raw_files[t][1].TrainSchedule[1].DepartureStationDescription
                    /\ normalized[t][1].destination_station =
                           raw_files[t][1].TrainSchedule[1].ArrivalStationDescription
                    /\ routes_rows[i][4] =
                           OrEmpty(normalized[t][1].origin_station) \o LongNameSeparator
                           \o OrEmpty(normalized[t][1].destination_station)

\* a route whose record starts with a named stop that was dropped for its coordinates
C10_Witness ==
    /\ Done
    /\ \E rec \in Records :
          /\ RouteId(rec.train_number) \in RouteIds
          /\ NameOf(rec.stops[1]) # <<>>
          /\ ~Survives(rec.stops[1])

-----------------------------------------------------------------------------
(* C11 *)

\* the named stops of a record whose name has no valid coordinate
DroppedObservations(rec) ==
    Cardinality({i \in 1..Len(rec.stops) :
                    NameOf(rec.stops[i]) # <<>> /\ ~CoordOk(NameOf(rec.stops[i]))})

RECURSIVE SumDropped(_)
SumDropped(recs) ==
    IF recs = {} THEN 0
    ELSE LET rec == CHOOSE r \in recs : TRUE
         IN  DroppedObservations(rec) + SumDropped(recs \ {rec})

\* C11: at the end of a run the dropped-trips counter plus the number of trips rows is the
\* number of records read, and the dropped-stops counter is the number of named stop
\* observations whose name has no valid coordinate.
C11_CountersExact ==
    Done =>
        /\ dropped_trips_too_few_stops + Len(trips_rows) = Cardinality(Records)
        /\ dropped_stops_no_coords = SumDropped(Records)

\* a run that dropped a stop and a trip and kept another trip
C11_Witness ==
    /\ Done
    /\ dropped_stops_no_coords >= 1
    /\ dropped_trips_too_few_stops >= 1
    /\ trips_rows # <<>>

-----------------------------------------------------------------------------
(* C14 *)

\* C14: every stop id of the stops table is the stop id of a stop-times row.
C14_StopsReferenced ==
    Done => \A id \in StopRowIds :
                \E i \in 1..Len(stop_times_rows) : stop_times_rows[i][4] = id

-----------------------------------------------------------------------------
(* C15 *)

SurvivingStops(rec) == SelectSeq(rec.stops, Survives)

\* C15: in every stop-times row arrival and departure are both empty or both non-empty; the
\* row of a stop whose record has exactly one of the two carries that value in both cells,
\* and the row of a stop that has both carries both.
C15_Completion ==
    Done =>
        /\ \A i \in 1..Len(stop_times_rows) :
              (stop_times_rows[i][2] = <<>>) <=> (stop_times_rows[i][3] = <<>>)
        /\ \A rec \in Records :
              Retained(rec) =>
                  LET rows == RowsOfTrip(TripId(rec.train_number))
                      kept == SurvivingStops(rec)
                  IN  /\ Len(rows) = Len(kept)
                      /\ \A i \in 1..Len(kept) :
                            LET a == OrEmpty(kept[i].arrival_time)
                                d == OrEmpty(kept[i].departure_time)
                            IN  /\ rows[i][2] = (IF a # <<>> THEN a ELSE d)
                                /\ rows[i][3] = (IF d # <<>> THEN d ELSE a)

\* a retained trip with an inner stop whose record has a departure and no arrival
C15_Witness ==
    /\ Done
    /\ \E rec \in Records :
          /\ Retained(rec)
          /\ \E i \in 2..(Len(SurvivingStops(rec)) - 1) :
                /\ OrEmpty(SurvivingStops(rec)[i].arrival_time) = <<>>
                /\ OrEmpty(SurvivingStops(rec)[i].departure_time) # <<>>

-----------------------------------------------------------------------------
(* C12 *)

\* the raw files that are JSON objects (or null) flagged empty or without a schedule
EmptyRecords ==
    {t \in Trains : /\ ~JsonDecodeError(raw_files[t]) /\ ~RaisesException(raw_files[t])
                    /\ \/ raw_files[t] = None
                       \/ raw_files[t][1].IsEmpty
                       \/ raw_files[t][1].TrainSchedule = None}

\* the raw files with a schedule
ScheduleRecords ==
    {t \in Trains : /\ ~JsonDecodeError(raw_files[t]) /\ ~RaisesException(raw_files[t])
                    /\ t \notin EmptyRecords}

\* C12: after a run of normalize_italo.main, a record flagged empty or without a schedule has
\* no normalized file and skipped_empty counts exactly these records; the files after it are
\* still processed (every record with a schedule has its normalized file); and
\* normalized + skipped_empty + skipped_nonjson + errors is the number of .json input files
\* other than _summary.json.
C12_SkippedAndCounted ==
    pc = "build" =>
        /\ \A t \in EmptyRecords : normalized[t] = None
        /\ stats.skipped_empty = Cardinality(EmptyRecords)
        /\ \A t \in ScheduleRecords : normalized[t] # None
        /\ stats.normalized = Cardinality(ScheduleRecords)
        /\ stats.normalized + stats.skipped_empty + stats.skipped_nonjson + stats.errors
               = Cardinality(Trains)

\* a run over an empty record, then a record with a schedule
C12_Witness ==
    /\ pc = "build"
    /\ raw_files[TrainPool[2]] = EmptyPayload
    /\ normalized[TrainPool[1]] # None
    /\ stats.skipped_empty = 1

-----------------------------------------------------------------------------
(* C13 *)

\* the table as build_gtfs reads it, before and after the last run
TableBefore == load_coords_csv(coords_before)

TableAfter == load_coords_csv(coords_file)

\* the display names of the stops of the raw records the last run read
DisplayNames ==
    UNION {LET ts    == f[1].TrainSchedule[1]
               stops == ts.StazionePartenza \o ts.StazioniFerme \o ts.StazioniNonFerme
           IN  {Strip(OrEmpty(stops[i].LocationDescription)) : i \in 1..Len(stops)} \ {<<>>} :
           f \in {g \in scanned : ~JsonDecodeError(g) /\ g[1].TrainSchedule # None}}

\* C13: after a run of extract_locations every name the table had before the run is still in
\* it with the same (lat, lon) pair, and every display name of the raw records that the table
\* did not have is in it with blank coordinates.
C13_UnionMerge ==
    loc_runs >= 1 =>
        /\ \A n \in DOMAIN TableBefore :
              n \in DOMAIN TableAfter /\ TableAfter[n] = TableBefore[n]
        /\ \A n \in DisplayNames \ DOMAIN TableBefore :
              n \in DOMAIN TableAfter /\ TableAfter[n] = << <<>>, <<>> >>

\* a second run that found a new name, over a table with a filled-in pair
C13_Witness ==
    /\ loc_runs >= 2
    /\ \E n \in DOMAIN TableBefore : TableBefore[n][1] # <<>>
    /\ DisplayNames \ DOMAIN TableBefore # {}

-----------------------------------------------------------------------------
(* C16 *)

\* C16: for a list of optional minute values within one day, the present values of the
\* output of infer_rollover_minutes are non-decreasing in list order, each is its input plus a
\* non-negative multiple of 1440, and the output is absent exactly where the input is absent.
C16_RolloverWalk ==
    pc = "rolled" =>
        /\ Len(rolled) = Len(times_in)
        /\ NonDecreasing(PresentValues(rolled, 1, Len(rolled)))
        /\ \A i \in 1..Len(times_in) :
              /\ (rolled[i] = None) <=> (times_in[i] = None)
              /\ rolled[i] # None =>
                    /\ rolled[i][1] >= times_in[i][1]
                    /\ (rolled[i][1] - times_in[i][1]) % 1440 = 0

\* a list that crosses midnight twice, with an absent value in it
C16_Witness ==
    /\ pc = "rolled"
    /\ \E i \in 1..Len(rolled) : rolled[i] # None /\ rolled[i][1] >= 2880
    /\ \E i \in 1..Len(rolled) : rolled[i] = None

-----------------------------------------------------------------------------
(* C17 *)

\* C17: parse_hhmm returns absent or a number of minutes in 0..1439; a missing, empty or
\* unparseable string gives absent.
C17_ParseRange ==
    pc = "parsed" =>
        /\ parsed = None \/ parsed[1] \in 0..1439
        /\ (clock_in = None \/ clock_in[1] = <<>> \/ ~TIME_RE_match(clock_in[1]))
               => parsed = None

-----------------------------------------------------------------------------
(* C18 *)

\* origin, scheduled stops, pass-through stops, as the payload lists them
Concatenation ==
    LET ts == raw_in[1].TrainSchedule[1]
    IN  ts.StazionePartenza \o ts.StazioniFerme \o ts.StazioniNonFerme

\* the composite key (station-order, insertion index) of i is below the one of j;
\* a stop without a usable number is after every numbered stop
KeyBelow(i, j) ==
    LET ni == Concatenation[i].StationNumber
        nj == Concatenation[j].StationNumber
    IN  \/ ni # None /\ nj = None
        \/ ni # None /\ nj # None /\ ni[1] < nj[1]
        \/ ni # None /\ nj # None /\ ni[1] = nj[1] /\ i < j
        \/ ni = None /\ nj = None /\ i < j

\* C18: the stop list of the record is the concatenation origin, scheduled stops,
\* pass-through stops, in ascending order of the composite key (station-order, insertion
\* index), the stops without a usable number last.
C18_StopOrder ==
    (pc = "extracted" /\ extracted # None) =>
        LET out == extracted[1].stops
        IN  /\ Len(out) = Len(Concatenation)
            /\ \E src \in [1..Len(out) -> 1..Len(out)] :
                  /\ \A p, q \in 1..Len(out) : p < q => KeyBelow(src[p], src[q])
                  /\ \A p \in 1..Len(out) :
                        out[p].stop_name = Concatenation[src[p]].LocationDescription

\* a record built from an unnumbered origin, two scheduled stops with the same number in
\* between which nothing was moved, and a pass-through stop
C18_Witness ==
    /\ pc = "extracted"
    /\ extracted # None
    /\ LET ts == raw_in[1].TrainSchedule[1]
       IN  /\ Len(ts.StazionePartenza) = 1
           /\ ts.StazionePartenza[1].StationNumber = None
           /\ ts.StazioniNonFerme # <<>>
           /\ \E i, j \in 1..Len(Concatenation) :
                 /\ i < j
                 /\ Concatenation[i].StationNumber # None
                 /\ Concatenation[i].StationNumber = Concatenation[j].StationNumber
           /\ extracted[1].stops[Len(Concatenation)].stop_name
                  = ts.StazionePartenza[1].LocationDescription

-----------------------------------------------------------------------------
(* C19 *)

\* the payload raw_in with the arrival string of its origin replaced
WithOriginArrival(clock) ==
    LET ts == raw_in[1].TrainSchedule[1]
    IN  Some([raw_in[1] EXCEPT !.TrainSchedule =
                 Some([ts EXCEPT !.StazionePartenza =
                          <<[ts.StazionePartenza[1] EXCEPT !.EstimatedArrivalTime = clock]>>])])

TimesOf(record) ==
    [i \in 1..Len(record[1].stops) |->
        <<record[1].stops[i].arrival_time, record[1].stops[i].departure_time>>]

\* C19: a record that differs from the one read only in the raw arrival string of its first
\* stop gives the same arrival and departure values at every stop.
C19_OriginArrivalIgnored ==
    (/\ pc = "extracted" /\ extracted # None
     /\ raw_in[1].TrainSchedule[1].StazionePartenza # <<>>
     /\ GatherStops(raw_in[1].TrainSchedule[1])[1] = raw_in[1].TrainSchedule[1].StazionePartenza[1])
        => \A clock \in ClockStrings :
              TimesOf(extract_stops_from_train_schedule(WithOriginArrival(clock), TrainPool[1]))
                  = TimesOf(extracted)

-----------------------------------------------------------------------------
(* C20 *)

\* C20: after the sequence-level rollover and the per-stop correction every stop that has
\* both an arrival and a departure has departure >= arrival.
C20_DepartureAfterArrival ==
    (pc = "extracted" /\ extracted # None) =>
        LET mins == ReconcileTimes(GatherStops(raw_in[1].TrainSchedule[1]))
        IN  \A i \in 1..Len(mins.arr) :
                (mins.arr[i] # None /\ mins.dep[i] # None) => mins.dep[i][1] >= mins.arr[i][1]
-----------------------------------------------------------------------------
(* C21 *)

\* C21: once build_gtfs has run, every trip id of the stop-times table is in the trips table,
\* every stop id of the stop-times table is in the stops table, every route id of the trips
\* table is in the routes table, and every trips row has the service id of the one calendar row.
C21_ReferentialIntegrity ==
    Done =>
        /\ \A i \in 1..Len(stop_times_rows) :
              /\ stop_times_rows[i][1] \in TripIds
              /\ stop_times_rows[i][4] \in StopRowIds
        /\ \A i \in 1..Len(trips_rows) :
              /\ trips_rows[i][1] \in RouteIds
              /\ trips_rows[i][2] = calendar_rows[1][1]
        /\ Len(calendar_rows) = 1

\* two retained trips whose stop-times rows share a stop
C21_Witness ==
    /\ Done
    /\ Len(trips_rows) = 2
    /\ \E i, j \in 1..Len(stop_times_rows) :
          /\ stop_times_rows[i][1] # stop_times_rows[j][1]
          /\ stop_times_rows[i][4] = stop_times_rows[j][4]
-----------------------------------------------------------------------------
(* C22 *)

\* the run directories that hold a normalized file of this name
RunsHolding(f) ==
    {r \in DOMAIN run_dirs : f \in DOMAIN run_dirs[r] /\ EndsWith(f, NormalizedSuffix)}

\* the last of a set of run names in string order
Greatest(R) == CHOOSE r \in R : \A q \in R \ {r} : StrLess(q, r)

\* C22: after the merge the output directory holds, for every normalized file name found in
\* a run directory, the copy of the run whose name sorts last among the runs holding it; a
\* file of the output directory that no run holds is as it was before the merge.
C22_LatestWins ==
    pc = "merged" =>
        /\ \A f \in RunFilePool :
              RunsHolding(f) # {} =>
                  /\ f \in DOMAIN out_dir
                  /\ out_dir[f] = run_dirs[Greatest(RunsHolding(f))][f]
        /\ \A f \in DOMAIN out_before :
              RunsHolding(f) = {} => f \in DOMAIN out_dir /\ out_dir[f] = out_before[f]

\* a file held by the runs "10" and "2" that replaces an earlier copy, next to a file of the
\* output directory that no run holds
C22_Witness ==
    /\ pc = "merged"
    /\ \E f \in DOMAIN out_before :
          /\ RunsHolding(f) = {<<"1", "0">>, <<"2">>}
          /\ out_dir[f] = <<"2">>
    /\ StaleFile \in DOMAIN out_before
    /\ out_dir[StaleFile] = EarlierContent
-----------------------------------------------------------------------------
(* C23 *)

\* ceil(len / size)
CeilDiv(len, size) == CHOOSE m \in 0..len : m * size >= len /\ (m - 1) * size < len

\* index mod n: the member of 0..n-1 that differs from index by a multiple of n
ModN(index, n) ==
    CHOOSE r \in 0..(n - 1) : \E q \in -(MaxSliceIndex + 1)..(MaxSliceIndex + 1) : index = q * n + r

\* the slices of indices from..to, one after the other
RECURSIVE SlicesJoined(_, _)
SlicesJoined(from, to) ==
    IF from > to THEN <<>>
    ELSE slice_list(items, slice_size, from) \o SlicesJoined(from + 1, to)

\* C23: for a non-empty list and slice_size > 0, with n = ceil(len / slice_size), the slices
\* of the indices 0..n-1 are non-empty, at most slice_size long, and joined in index order
\* they are the list; for any integer index slice_list returns the slice of index mod n.
C23_SlicesPartition ==
    (pc = "sliced" /\ items # <<>>) =>
        LET n == CeilDiv(Len(items), slice_size)
        IN  /\ \A k \in 0..(n - 1) :
                  /\ slice_list(items, slice_size, k) # <<>>
                  /\ Len(slice_list(items, slice_size, k)) <= slice_size
            /\ SlicesJoined(0, n - 1) = items
            /\ slice_out = Some(SubSeq(items, ModN(slice_index, n) * slice_size + 1,
                                       Min(Len(items), (ModN(slice_index, n) + 1) * slice_size)))

\* a negative index into a list whose last slice is shorter than the others
C23_Witness ==
    /\ pc = "sliced"
    /\ Len(items) = 4 /\ slice_size = 3
    /\ slice_index = -3
    /\ slice_out = Some(<<items[4]>>)
-----------------------------------------------------------------------------
(* C24 *)

\* C24: fetch_json sends at most retries + 1 requests, and when it has returned exactly one
\* of the payload and the error is present: the payload without an error after an answer
\* with status 200 and a decodable body, the last error without a payload after retries + 1
\* failed attempts.
C24_BoundedRetry ==
    /\ requests <= retries + 1
    /\ pc = "returned" =>
          /\ (fetched[1].payload # None) # (fetched[1].err # None)
          /\ fetched[1].err # None => requests = retries + 1 /\ fetched[1].err = last_err
-----------------------------------------------------------------------------
(* C25 *)

InventoryWas == load_inventory(inventory_before)

InventoryIs == load_inventory(inventory)

\* seen_count of a name before the run, 0 for a name the inventory did not hold
CountBefore(name) ==
    IF name \in DOMAIN InventoryWas THEN InventoryWas[name].seen_count ELSE 0

\* C25: a run removes no name from the inventory and leaves a non-empty first_seen_utc as
\* it is; the seen_count of an observed name grows by exactly 1 and its last_seen_utc is the
\* run identifier; the seen_count and last_seen_utc of every other name are unchanged.
C25_InventoryAccumulates ==
    inv_runs > 0 =>
        /\ DOMAIN InventoryWas \subseteq DOMAIN InventoryIs
        /\ \A name \in DOMAIN InventoryWas :
              InventoryWas[name].first_seen_utc # <<>> =>
                  InventoryIs[name].first_seen_utc = InventoryWas[name].first_seen_utc
        /\ \A name \in DOMAIN InventoryIs :
              IF name \in observed
              THEN /\ InventoryIs[name].seen_count = CountBefore(name) + 1
                   /\ InventoryIs[name].last_seen_utc = run_utc
              ELSE /\ name \in DOMAIN InventoryWas
                   /\ InventoryIs[name].seen_count = InventoryWas[name].seen_count
                   /\ InventoryIs[name].last_seen_utc = InventoryWas[name].last_seen_utc

\* the second run observes a name for the second time and a new name, and misses a third
C25_Witness ==
    /\ inv_runs = 2
    /\ \E name \in observed \cap DOMAIN InventoryWas :
          /\ InventoryWas[name].first_seen_utc # run_utc
          /\ InventoryIs[name].seen_count >= 2
    /\ observed \ DOMAIN InventoryWas # {}
    /\ DOMAIN InventoryWas \ observed # {}
====
